---------------------------- MODULE Spec2Model ----------------------------
(***************************************************************************)
(* Model of numba/interpreter.py: the single-pass bytecode-to-IR           *)
(* Interpreter.  The bytecode, the control-flow analysis (cfa) and the     *)
(* data-flow analysis (dfa) are inputs of the interpreter; the model       *)
(* reveals them instruction by instruction and fact by fact, remembering   *)
(* every fact once it has been read so that a second read agrees.          *)
(***************************************************************************)
EXTENDS Integers, Sequences, FiniteSets, TLC

\* ------------------------------------------------------------------ bounds
\* number of basic blocks of the function (block k starts at offset k*Stride)
NBlocks == 4
\* values on a predecessor's lingering stack
MaxStack == 2
\* merge variables dfa reports for one block
MaxIncomings == 2
\* instructions of the whole function
MaxInsts == 3
\* the distance between two block offsets: room for every instruction
Stride == MaxInsts

BlockOffsets == {k * Stride : k \in 0 .. (NBlocks - 1)}

\* None of Python, for an offset
NoOffset == -1

\* names of the scope: locals (co_varnames) and the temporaries of dfa
Names == {"x", "y", "z"}
\* the temporaries dfa names the results of instructions with
Temps == {"$0", "$1", "$2"}
\* the function's parameters (argspec.args)
Args == {"x"}
\* co_varnames, indexed by the argument of STORE_FAST
code_locals == <<"x", "y", "z">>
\* co_consts, indexed by the argument of LOAD_CONST
code_consts == <<1, 2>>
\* co_names, indexed by the argument of LOAD_GLOBAL
code_names == <<"len", "foo">>

VARIABLES
    status,                 \* "running" | "done" | "failed": position in interpret()
    error,                  \* the exception that ended interpret(), or NoError
    blocks,                 \* self.blocks: offset -> statement list
    current_block_offset,   \* self.current_block_offset (current_block is blocks[it])
    scope,                  \* self.current_scope: name -> live version (0: unbound)
    syntax_blocks,          \* self.syntax_blocks: stack of Loop identities
    syntax_info,            \* self.syntax_info: list of Loop identities
    loops,                  \* the ir.Loop objects, by identity (creation index)
    block_actions,          \* self._block_actions: the Loops that have a listener
    bytecode,               \* the opnames dispatched so far, per block
    inst,                   \* the instruction _iter_inst yielded last in this block
    opened,                 \* the offsets passed to _start_new_block, in order
    backbone,               \* cfa.backbone, as far as read
    cfa_incoming,           \* <<o, ib>> -> whether ib is in cfa.blocks[o].incoming,
                            \* as far as read
    cfa_popblock,           \* whether cfa.blocks[o] holds a POP_BLOCK, as far as read
    dfa_stack,              \* dfa.infos[o].stack, as far as read
    dfa_incomings,          \* dfa.infos[o].incomings of the opened blocks
    func_globals,           \* bytecode.func.func_globals, as far as read
    builtins,               \* the attributes of __builtin__, as far as read
    loop_life               \* per Loop: its SETUP_LOOP, and how many blocks were
                            \* open when it was set up, when its condition was
                            \* first set and when it was popped

vars == <<status, error, blocks, current_block_offset, scope, syntax_blocks,
          syntax_info, loops, block_actions, bytecode, inst, opened, backbone,
          cfa_incoming, cfa_popblock, dfa_stack, dfa_incomings, func_globals,
          builtins, loop_life>>

inputs == <<bytecode, inst, opened, backbone, cfa_incoming, cfa_popblock,
            dfa_stack, dfa_incomings, func_globals, builtins, loop_life>>

NoError == [kind |-> "none"]

NoInst == [opname |-> "none", offset |-> NoOffset, next |-> NoOffset, arg |-> 0,
           target |-> NoOffset, kws |-> <<>>]

\* ------------------------------------------------------------- ir (values)
Var(name, version) == [kind |-> "Var", name |-> name, version |-> version]
Const(value) == [kind |-> "Const", value |-> value]
Global(name, value) == [kind |-> "Global", name |-> name, value |-> value]
BinOp(fn, lhs, rhs) == [kind |-> "BinOp", fn |-> fn, lhs |-> lhs, rhs |-> rhs]
IterNext(value) == [kind |-> "IterNext", value |-> value]
IterValid(value) == [kind |-> "IterValid", value |-> value]
Phi(incoming) == [kind |-> "Phi", incoming |-> incoming]

Assign(value, target) == [kind |-> "Assign", value |-> value, target |-> target]
Jump(target) == [kind |-> "Jump", target |-> target]
Branch(cond, truebr, falsebr) ==
    [kind |-> "Branch", cond |-> cond, truebr |-> truebr, falsebr |-> falsebr]
Return(value) == [kind |-> "Return", value |-> value]

Terminators == {"Jump", "Branch", "Return"}

is_terminated(body) == Len(body) > 0 /\ body[Len(body)].kind \in Terminators

Loop(entry, exit) ==
    [entry |-> entry, exit |-> exit, condition |-> NoOffset, body |-> <<>>]

valid(loop) == loop.condition # NoOffset

\* ------------------------------------------------------------------- scope
Defined(sc, name) == sc[name] > 0

get(sc, name) == Var(name, sc[name])

redefine(sc, name) == [sc EXCEPT ![name] = sc[name] + 1]

get_or_define(sc, name) == IF Defined(sc, name) THEN sc ELSE [sc EXCEPT ![name] = 1]

\* store that never asks for a fresh version
store_get_or_define(sc, body, offset, bb, value, name) ==
    LET sc2 == get_or_define(sc, name)
    IN  [scope |-> sc2, body |-> Append(body, Assign(value, get(sc2, name)))]

\* store(value, name) on the pair (scope, body of the current block)
store(sc, body, offset, bb, value, name) ==
    LET sc2 == IF offset \in bb THEN redefine(sc, name) ELSE get_or_define(sc, name)
    IN  [scope |-> sc2, body |-> Append(body, Assign(value, get(sc2, name)))]

\* ------------------------------------------------------ inputs, as revealed
EmptyFn == [k \in {} |-> 0]

Put(f, k, v) == [j \in DOMAIN f \cup {k} |-> IF j = k THEN v ELSE f[j]]

\* the values an input fact can take: the one already read, or any
Reading(memo, k, all) == IF k \in DOMAIN memo THEN {memo[k]} ELSE all

\* the predecessors cfa reports for a block with a merge variable: the block
\* before it and the block after it in the bytecode, either or both or none
PredCandidates(o) == {o - Stride, o + Stride} \cap BlockOffsets

\* the sets cfa.blocks[o].incoming can be, given the memberships already read
ReadingIncoming(memo, o) ==
    {s \in SUBSET PredCandidates(o) :
        \A ib \in BlockOffsets :
           <<o, ib>> \in DOMAIN memo => (memo[<<o, ib>>] <=> ib \in s)}

\* cfa.blocks[o].incoming has been read whole
PutIncoming(memo, o, s) ==
    [k \in DOMAIN memo \cup {<<o, ib>> : ib \in BlockOffsets} |->
        IF k[1] = o THEN k[2] \in s ELSE memo[k]]

\* the names dfa gives to values left on the stack, and to merge variables
StackNames == {"y", "z"}
MergeNames == {"x"}

\* a lingering stack: only its length and its first value are ever read
StackChoices ==
    {<<nm>> : nm \in StackNames} \cup
    {[i \in 1 .. n |-> "y"] : n \in (0 .. MaxStack) \ {1}}

IncomingsChoices ==
    {[i \in 1 .. n |-> nm] : n \in 0 .. MaxIncomings, nm \in MergeNames}

RECURSIVE Orders(_)
Orders(s) ==
    IF s = {} THEN {<<>>}
    ELSE UNION {{<<e>> \o t : t \in Orders(s \ {e})} : e \in s}

\* the offset and the next offset of the instruction about to be dispatched:
\* a terminating instruction is the last of its block, so its next offset is
\* the following block's
InstOffset == current_block_offset + Len(bytecode[current_block_offset])
InstNext(terminating) ==
    IF terminating THEN current_block_offset + Stride ELSE InstOffset + 1
Inst(opname) == [opname |-> opname, offset |-> InstOffset]

\* a POP_BLOCK has been dispatched in block o
SeenPopBlock(o) ==
    o \in DOMAIN bytecode /\ \E i \in 1 .. Len(bytecode[o]) : bytecode[o][i] = "POP_BLOCK"

\* the current block's instructions are complete and agree with what was read
BlockComplete ==
    current_block_offset # NoOffset =>
        /\ Len(bytecode[current_block_offset]) >= 1
        /\ (current_block_offset \in DOMAIN cfa_popblock
               /\ cfa_popblock[current_block_offset])
           => SeenPopBlock(current_block_offset)

\* -------------------------------------------------------------------- Init
Init ==
    /\ status = "running"
    /\ error = NoError
    /\ blocks = EmptyFn
    /\ current_block_offset = NoOffset
    /\ scope = [n \in Names \cup Temps |-> IF n \in Args THEN 1 ELSE 0]
    /\ syntax_blocks = <<>>
    /\ syntax_info = <<>>
    /\ loops = <<>>
    /\ block_actions = {}
    /\ bytecode = EmptyFn
    /\ inst = NoInst
    /\ opened = <<>>
    /\ backbone = {}
    /\ cfa_incoming = EmptyFn
    /\ cfa_popblock = EmptyFn
    /\ dfa_stack = EmptyFn
    /\ dfa_incomings = EmptyFn
    /\ func_globals = EmptyFn
    /\ builtins = EmptyFn
    /\ loop_life = <<>>

\* ---------------------------------------------------------- _insert_phi
\* the loop of lines 104-108 over the predecessors in iteration order ord
RECURSIVE phi_add(_, _, _, _)
phi_add(ord, stk, sc, acc) ==
    IF ord = <<>> THEN [error |-> "none", incoming |-> acc]
    ELSE LET ib == Head(ord)
             lingering == stk[ib]
         IN  IF Len(lingering) # 1
             THEN [error |-> "AssertionError", incoming |-> acc]
             ELSE IF ~Defined(sc, lingering[1])
             THEN [error |-> "UndefinedVariable", incoming |-> acc]
             ELSE phi_add(Tail(ord), stk, sc,
                          Append(acc, <<ib, get(sc, lingering[1])>>))

\* _insert_phi without the single-predecessor branch of lines 95-100
_insert_phi_no_alias(sc, offset, bb, incs, ord, stk) ==
    IF incs = <<>> THEN [error |-> "none", scope |-> sc, body |-> <<>>]
    ELSE IF Len(incs) # 1 THEN [error |-> "AssertionError", scope |-> sc, body |-> <<>>]
    ELSE LET st == store(sc, <<>>, offset, bb, Phi(<<>>), incs[1])
             fill == phi_add(ord, stk, st.scope, <<>>)
         IN  [error |-> fill.error, scope |-> st.scope,
              body |-> <<Assign(Phi(fill.incoming), st.body[1].target)>>]

\* result of _insert_phi on (scope, body of the new block): error, scope, body
\* incs = dfainfo.incomings, ord = cfa incoming in iteration order,
\* stk = the lingering stacks of the predecessors
_insert_phi(sc, offset, bb, incs, ord, stk) ==
    IF incs = <<>> THEN [error |-> "none", scope |-> sc, body |-> <<>>]
    ELSE IF Len(incs) # 1 THEN [error |-> "AssertionError", scope |-> sc, body |-> <<>>]
    ELSE LET phivar == incs[1] IN
      IF Len(ord) = 1
      THEN LET lingering == stk[ord[1]] IN
           IF Len(lingering) # 1
           THEN [error |-> "AssertionError", scope |-> sc, body |-> <<>>]
           ELSE IF ~Defined(sc, lingering[1])
           THEN [error |-> "UndefinedVariable", scope |-> sc, body |-> <<>>]
           ELSE LET st == store(sc, <<>>, offset, bb, get(sc, lingering[1]), phivar)
                IN  [error |-> "none", scope |-> st.scope, body |-> st.body]
      ELSE LET st == store(sc, <<>>, offset, bb, Phi(<<>>), phivar)
               fill == phi_add(ord, stk, st.scope, <<>>)
           IN  [error |-> fill.error, scope |-> st.scope,
                body |-> <<Assign(Phi(fill.incoming), st.body[1].target)>>]

\* ------------------------------------------------------ _start_new_block
\* the listeners invoked for every Loop, registered or not
notify_every_loop(ls, actions, offset) ==
    [l \in DOMAIN ls |-> [ls[l] EXCEPT !.body = Append(@, offset)]]

\* the listeners of line 87-88: every registered mark_as_body appends offset
notify_listeners(ls, actions, offset) ==
    [l \in DOMAIN ls |->
        IF l \in actions THEN [ls[l] EXCEPT !.body = Append(@, offset)] ELSE ls[l]]

\* close_oldblock without the is_terminated test of line 79
close_oldblock_always(bs, old, offset) ==
    IF old # NoOffset
    THEN [bs EXCEPT ![old] = Append(@, Jump(offset))]
    ELSE bs

\* lines 76-81: the block left open gains a Jump to the new block
close_oldblock(bs, old, offset) ==
    IF old # NoOffset /\ ~is_terminated(bs[old])
    THEN [bs EXCEPT ![old] = Append(@, Jump(offset))]
    ELSE bs

\* _iter_inst opens the next live block: _start_new_block(firstinst)
OpenBlock(offset, inbb, incs, ord, stk) ==
    LET bb == IF inbb THEN backbone \cup {offset} ELSE backbone
        phi == _insert_phi(scope, offset, bb, incs, ord, stk)
        closed == close_oldblock(blocks, current_block_offset, offset)
    IN  /\ blocks' = Put(closed, offset, phi.body)
        /\ current_block_offset' = offset
        /\ scope' = phi.scope
        /\ backbone' = bb
        /\ bytecode' = Put(bytecode, offset, <<>>)
        /\ inst' = NoInst
        /\ opened' = Append(opened, offset)
        /\ dfa_incomings' = Put(dfa_incomings, offset, incs)
        /\ IF phi.error = "none"
           THEN /\ loops' = notify_listeners(loops, block_actions, offset)
                /\ UNCHANGED <<status, error>>
           ELSE /\ status' = "failed"
                /\ error' = [kind |-> phi.error,
                             inst |-> [opname |-> "none", offset |-> offset]]
                /\ UNCHANGED loops
        /\ UNCHANGED <<syntax_blocks, syntax_info, block_actions, cfa_popblock,
                       func_globals, builtins, loop_life>>

StartNewBlock(offset, inbb, incs) ==
    /\ status = "running"
    /\ BlockComplete
    /\ offset \in BlockOffsets
    /\ offset > current_block_offset
    /\ opened = <<>> => offset = 0
    /\   IF Len(incs) # 1
         THEN /\ OpenBlock(offset, inbb, incs, <<>>, EmptyFn)
              /\ UNCHANGED <<cfa_incoming, dfa_stack>>
         ELSE \E inc \in ReadingIncoming(cfa_incoming, offset) :
              \E ord \in Orders(inc) :
              \E stk \in {f \in [inc -> StackChoices] :
                            \A ib \in inc \cap DOMAIN dfa_stack : f[ib] = dfa_stack[ib]} :
                /\ OpenBlock(offset, inbb, incs, ord, stk)
                /\ cfa_incoming' = PutIncoming(cfa_incoming, offset, inc)
                /\ dfa_stack' = [ib \in DOMAIN dfa_stack \cup inc |->
                                   IF ib \in inc THEN stk[ib] ELSE dfa_stack[ib]]

\* the list left unfiltered
keep_syntax_blocks(info) == info

\* interpret(), lines 54-57: the live blocks are exhausted; clean up
_remove_invalid_syntax_blocks(info) == SelectSeq(info, LAMBDA l : valid(loops[l]))

Finish ==
    /\ status = "running"
    /\ current_block_offset # NoOffset
    /\ BlockComplete
    /\ syntax_info' = _remove_invalid_syntax_blocks(syntax_info)
    /\ status' = "done"
    /\ UNCHANGED <<error, blocks, current_block_offset, scope, syntax_blocks, loops,
                   block_actions, inputs>>

\* --------------------------------------------------------------- _dispatch
\* the methods named op_<opname> of the class
HandlerNames ==
    {"STORE_FAST", "LOAD_ATTR", "LOAD_CONST", "LOAD_GLOBAL", "SETUP_LOOP",
     "CALL_FUNCTION", "GET_ITER", "FOR_ITER", "BINARY_SUBSCR", "STORE_SUBSCR",
     "BUILD_TUPLE", "BINARY_ADD", "BINARY_SUBTRACT", "BINARY_MULTIPLY",
     "BINARY_DIVIDE", "BINARY_TRUE_DIVIDE", "BINARY_FLOOR_DIVIDE",
     "BINARY_MODULO", "INPLACE_ADD", "INPLACE_SUBSTRACT", "INPLACE_MULTIPLY",
     "INPLACE_DIVIDE", "INPLACE_TRUE_DIVIDE", "INPLACE_FLOOR_DIVIDE",
     "JUMP_ABSOLUTE", "JUMP_FORWARD", "POP_BLOCK", "RETURN_VALUE", "COMPARE_OP",
     "JUMP_IF_FALSE", "JUMP_IF_TRUE", "POP_JUMP_IF_FALSE", "POP_JUMP_IF_TRUE",
     "JUMP_IF_FALSE_OR_POP", "JUMP_IF_TRUE_OR_POP"}

NoHandler == "AttributeError"

\* getattr(self, "op_%s" % inst.opname)
Handler(opname) == IF opname \in HandlerNames THEN opname ELSE NoHandler

\* instructions that end their basic block
TerminatingOps ==
    {"JUMP_ABSOLUTE", "JUMP_FORWARD", "RETURN_VALUE", "FOR_ITER",
     "JUMP_IF_FALSE", "JUMP_IF_TRUE", "POP_JUMP_IF_FALSE", "POP_JUMP_IF_TRUE",
     "JUMP_IF_FALSE_OR_POP", "JUMP_IF_TRUE_OR_POP"}

cur == current_block_offset

RECURSIVE CountInsts(_)
CountInsts(os) ==
    IF os = {} THEN 0
    ELSE LET o == CHOOSE o \in os : TRUE
         IN  Len(bytecode[o]) + CountInsts(os \ {o})

\* _iter_inst yields the next instruction of the current block
CanDispatch ==
    /\ status = "running"
    /\ cur # NoOffset
    /\ CountInsts(DOMAIN bytecode) < MaxInsts
    /\ Len(bytecode[cur]) < Stride
    /\ Len(bytecode[cur]) > 0 => bytecode[cur][Len(bytecode[cur])] \notin TerminatingOps

\* a block that cfa says holds a POP_BLOCK does not end before it
Fetch(opname, arg, target, kws) ==
    /\ (opname \in TerminatingOps /\ cur \in DOMAIN cfa_popblock /\ cfa_popblock[cur])
          => SeenPopBlock(cur)
    /\ bytecode' = [bytecode EXCEPT ![cur] = Append(@, opname)]
    /\ inst' = [opname |-> opname, offset |-> InstOffset,
                next |-> InstNext(opname \in TerminatingOps), arg |-> arg,
                target |-> target, kws |-> kws]

Raise(kind, opname) ==
    /\ status' = "failed"
    /\ error' = [kind |-> kind, inst |-> Inst(opname)]

\* the handler appends one statement to the current block
Emit(stmt) == blocks' = [blocks EXCEPT ![cur] = Append(@, stmt)]

\* the handler binds a value: self.store(value, name)
Bind(value, name) ==
    LET st == store(scope, blocks[cur], cur, backbone, value, name)
    IN  /\ scope' = st.scope
        /\ blocks' = [blocks EXCEPT ![cur] = st.body]

tables == <<func_globals, builtins>>
flow == <<opened, backbone, cfa_incoming, cfa_popblock, dfa_stack, dfa_incomings>>
analyses == <<flow, tables>>
loopstate == <<syntax_blocks, syntax_info, loops, block_actions, loop_life>>

\* the AttributeError swallowed: the instruction is skipped
skip_instruction(opname) ==
    UNCHANGED <<status, error, blocks, current_block_offset, scope, loopstate,
                analyses>>

\* lines 141-142: no method of that name
raise_NotImplementedError(opname) ==
    /\ Raise("NotImplementedError", opname)
    /\ UNCHANGED <<blocks, current_block_offset, scope, loopstate, analyses>>

Unsupported(opname) ==
    /\ CanDispatch
    /\ Handler(opname) = NoHandler
    /\ Fetch(opname, 0, NoOffset, <<>>)
    /\ raise_NotImplementedError(opname)

op_STORE_FAST(arg, value) ==
    /\ IF Defined(scope, value)
       THEN /\ Bind(get(scope, value), code_locals[arg])
            /\ UNCHANGED <<status, error>>
       ELSE /\ Raise("UndefinedVariable", "STORE_FAST")
            /\ UNCHANGED <<blocks, scope>>
    /\ UNCHANGED <<current_block_offset, loopstate, analyses>>

op_LOAD_CONST(arg, res) ==
    /\ Bind(Const(code_consts[arg]), res)
    /\ UNCHANGED <<status, error, current_block_offset, loopstate, analyses>>

op_JUMP_ABSOLUTE(target) ==
    /\ Emit(Jump(target))
    /\ UNCHANGED <<status, error, current_block_offset, scope, loopstate, analyses>>

op_JUMP_FORWARD(target) ==
    /\ Emit(Jump(target))
    /\ UNCHANGED <<status, error, current_block_offset, scope, loopstate, analyses>>

op_RETURN_VALUE(retval) ==
    /\ IF Defined(scope, retval)
       THEN /\ Emit(Return(get(scope, retval)))
            /\ UNCHANGED <<status, error>>
       ELSE /\ Raise("UndefinedVariable", "RETURN_VALUE")
            /\ UNCHANGED blocks
    /\ UNCHANGED <<current_block_offset, scope, loopstate, analyses>>

DispatchSTORE_FAST(arg, value) ==
    /\ CanDispatch
    /\ Handler("STORE_FAST") = "STORE_FAST"
    /\ Fetch("STORE_FAST", arg, NoOffset, <<value>>)
    /\ op_STORE_FAST(arg, value)

DispatchLOAD_CONST(arg, res) ==
    /\ CanDispatch
    /\ Handler("LOAD_CONST") = "LOAD_CONST"
    /\ Fetch("LOAD_CONST", arg, NoOffset, <<res>>)
    /\ op_LOAD_CONST(arg, res)

DispatchJUMP_ABSOLUTE(target) ==
    /\ CanDispatch
    /\ Handler("JUMP_ABSOLUTE") = "JUMP_ABSOLUTE"
    /\ Fetch("JUMP_ABSOLUTE", target, target, <<>>)
    /\ op_JUMP_ABSOLUTE(target)

DispatchJUMP_FORWARD(target) ==
    /\ CanDispatch
    /\ Handler("JUMP_FORWARD") = "JUMP_FORWARD"
    /\ target > cur
    /\ Fetch("JUMP_FORWARD", target - InstNext(TRUE), target, <<>>)
    /\ op_JUMP_FORWARD(target)

DispatchRETURN_VALUE(retval) ==
    /\ CanDispatch
    /\ Handler("RETURN_VALUE") = "RETURN_VALUE"
    /\ Fetch("RETURN_VALUE", 0, NoOffset, <<retval>>)
    /\ op_RETURN_VALUE(retval)

\* ------------------------------------------------------------ LOAD_GLOBAL
\* a name that a table does not hold
NotThere == "<absent>"
\* ir.UNDEFINED
UNDEFINED == "ir.UNDEFINED"
\* the values the two tables hold
GlobalValues == {"<global>"}
BuiltinValues == {"<builtin>"}

\* the lookup with the fallback namespace asked first
get_global_value_builtins_first(globs, blts, name) ==
    IF blts[name] # NotThere THEN blts[name]
    ELSE IF globs[name] # NotThere THEN globs[name]
    ELSE UNDEFINED

\* lines 115-118: func_globals[name], on KeyError getattr(builtins, name,
\* ir.UNDEFINED)
get_global_value(globs, blts, name) ==
    IF globs[name] # NotThere THEN globs[name]
    ELSE IF blts[name] # NotThere THEN blts[name]
    ELSE UNDEFINED

op_LOAD_GLOBAL(arg, res) ==
    LET name == code_names[arg] IN
    \E g \in Reading(func_globals, name, {NotThere} \cup GlobalValues) :
    \E b \in Reading(builtins, name, {NotThere} \cup BuiltinValues) :
       /\ func_globals' = Put(func_globals, name, g)
       /\ builtins' = Put(builtins, name, b)
       /\ Bind(Global(name, get_global_value(func_globals', builtins', name)), res)
       /\ UNCHANGED <<status, error, current_block_offset, loopstate, flow>>

DispatchLOAD_GLOBAL(arg, res) ==
    /\ CanDispatch
    /\ Handler("LOAD_GLOBAL") = "LOAD_GLOBAL"
    /\ Fetch("LOAD_GLOBAL", arg, NoOffset, <<res>>)
    /\ op_LOAD_GLOBAL(arg, res)

\* ------------------------------------------------------ binary arithmetic
\* the operator each op_BINARY_* method passes to _binop
BinarySymbol ==
    [BINARY_ADD |-> "+", BINARY_SUBTRACT |-> "-", BINARY_MULTIPLY |-> "*",
     BINARY_DIVIDE |-> "/?", BINARY_TRUE_DIVIDE |-> "/",
     BINARY_FLOOR_DIVIDE |-> "//", BINARY_MODULO |-> "%"]

\* the operator each op_INPLACE_* method passes to _inplace_binop
InplaceSymbol ==
    [INPLACE_ADD |-> "+", INPLACE_SUBSTRACT |-> "-", INPLACE_MULTIPLY |-> "*",
     INPLACE_DIVIDE |-> "/?", INPLACE_TRUE_DIVIDE |-> "/",
     INPLACE_FLOOR_DIVIDE |-> "//"]

\* _binop with the operands exchanged
_binop_exchanged(op, lhs, rhs, res) ==
    /\ IF Defined(scope, lhs) /\ Defined(scope, rhs)
       THEN /\ Bind(BinOp(op, get(scope, rhs), get(scope, lhs)), res)
            /\ UNCHANGED <<status, error>>
       ELSE /\ Raise("UndefinedVariable", inst'.opname)
            /\ UNCHANGED <<blocks, scope>>
    /\ UNCHANGED <<current_block_offset, loopstate, analyses>>

_binop(op, lhs, rhs, res) ==
    /\ IF Defined(scope, lhs) /\ Defined(scope, rhs)
       THEN /\ Bind(BinOp(op, get(scope, lhs), get(scope, rhs)), res)
            /\ UNCHANGED <<status, error>>
       ELSE /\ Raise("UndefinedVariable", inst'.opname)
            /\ UNCHANGED <<blocks, scope>>
    /\ UNCHANGED <<current_block_offset, loopstate, analyses>>

_inplace_binop(op, lhs, rhs, res) == _binop(op, lhs, rhs, res)

op_BINARY(method, lhs, rhs, res) == _binop(BinarySymbol[method], lhs, rhs, res)

op_INPLACE(method, lhs, rhs, res) ==
    _inplace_binop(InplaceSymbol[method], lhs, rhs, res)

DispatchBINARY(opname, lhs, rhs, res) ==
    /\ CanDispatch
    /\ Handler(opname) \in DOMAIN BinarySymbol
    /\ Fetch(opname, 0, NoOffset, <<lhs, rhs, res>>)
    /\ op_BINARY(Handler(opname), lhs, rhs, res)

DispatchINPLACE(opname, lhs, rhs, res) ==
    /\ CanDispatch
    /\ Handler(opname) \in DOMAIN InplaceSymbol
    /\ Fetch(opname, 0, NoOffset, <<lhs, rhs, res>>)
    /\ op_INPLACE(Handler(opname), lhs, rhs, res)

\* ------------------------------------------------------- loop recovery
NoLife == [born |-> -1, found |-> -1, popped |-> -1, setup |-> NoInst]

\* the Loop on top of self.syntax_blocks
TopLoop == syntax_blocks[Len(syntax_blocks)]

\* the condition set to the Loop's own header
set_condition_entry(ls, l) == [ls EXCEPT ![l].condition = ls[l].entry]

\* loop.condition = self.current_block_offset
set_condition(ls, l) == [ls EXCEPT ![l].condition = cur]

\* the first time a Loop's condition is set, note how many blocks are open
note_found(life, l) ==
    IF life[l].found = -1 THEN [life EXCEPT ![l].found = Len(opened)] ELSE life

\* SETUP_LOOP with the exit counted from the marker's own offset
op_SETUP_LOOP_exit_from_offset(arg) ==
    /\ IF InstOffset \notin DOMAIN blocks
       THEN /\ Raise("KeyError", "SETUP_LOOP")
            /\ UNCHANGED loopstate
       ELSE /\ loops' = Append(loops, Loop(InstOffset, InstOffset + arg))
            /\ syntax_blocks' = Append(syntax_blocks, Len(loops) + 1)
            /\ syntax_info' = Append(syntax_info, Len(loops) + 1)
            /\ loop_life' = Append(loop_life, [NoLife EXCEPT !.born = Len(opened),
                                                           !.setup = inst'])
            /\ UNCHANGED <<status, error, block_actions>>
    /\ UNCHANGED <<blocks, current_block_offset, scope, analyses>>

op_SETUP_LOOP(arg) ==
    /\ IF InstOffset \notin DOMAIN blocks
       THEN /\ Raise("KeyError", "SETUP_LOOP")
            /\ UNCHANGED loopstate
       ELSE /\ loops' = Append(loops, Loop(InstOffset, InstNext(FALSE) + arg))
            /\ syntax_blocks' = Append(syntax_blocks, Len(loops) + 1)
            /\ syntax_info' = Append(syntax_info, Len(loops) + 1)
            /\ loop_life' = Append(loop_life, [NoLife EXCEPT !.born = Len(opened),
                                                           !.setup = inst'])
            /\ UNCHANGED <<status, error, block_actions>>
    /\ UNCHANGED <<blocks, current_block_offset, scope, analyses>>

op_FOR_ITER(iterator, indval, pred) ==
    /\ IF InstOffset \notin DOMAIN blocks
       THEN /\ Raise("AssertionError", "FOR_ITER")
            /\ UNCHANGED <<blocks, scope, loops, block_actions, loop_life>>
       ELSE IF syntax_blocks = <<>>
       THEN /\ Raise("IndexError", "FOR_ITER")
            /\ UNCHANGED <<blocks, scope, loops, block_actions, loop_life>>
       ELSE /\ loops' = set_condition(loops, TopLoop)
            /\ loop_life' = note_found(loop_life, TopLoop)
            /\ IF ~Defined(scope, iterator)
               THEN /\ Raise("UndefinedVariable", "FOR_ITER")
                    /\ UNCHANGED <<blocks, scope, block_actions>>
               ELSE LET val == get(scope, iterator)
                        st1 == store(scope, blocks[cur], cur, backbone,
                                     IterNext(val), indval)
                        st2 == store(st1.scope, st1.body, cur, backbone,
                                     IterValid(val), pred)
                        br == Branch(get(st2.scope, pred), InstNext(TRUE),
                                     loops[TopLoop].exit)
                    IN  /\ scope' = st2.scope
                        /\ blocks' = [blocks EXCEPT ![cur] = Append(st2.body, br)]
                        /\ block_actions' = block_actions \cup {TopLoop}
                        /\ UNCHANGED <<status, error>>
    /\ UNCHANGED <<current_block_offset, syntax_blocks, syntax_info, analyses>>

\* POP_BLOCK without lines 335-336: the popped Loop keeps its listener
op_POP_BLOCK_keeps_listener ==
    /\ IF syntax_blocks = <<>>
       THEN /\ Raise("IndexError", "POP_BLOCK")
            /\ UNCHANGED <<syntax_blocks, block_actions, loop_life>>
       ELSE /\ syntax_blocks' = SubSeq(syntax_blocks, 1, Len(syntax_blocks) - 1)
            /\ block_actions' = block_actions
            /\ loop_life' = [loop_life EXCEPT ![TopLoop].popped = Len(opened)]
            /\ UNCHANGED <<status, error>>
    /\ UNCHANGED <<blocks, current_block_offset, scope, syntax_info, loops, analyses>>

op_POP_BLOCK ==
    /\ IF syntax_blocks = <<>>
       THEN /\ Raise("IndexError", "POP_BLOCK")
            /\ UNCHANGED <<syntax_blocks, block_actions, loop_life>>
       ELSE /\ syntax_blocks' = SubSeq(syntax_blocks, 1, Len(syntax_blocks) - 1)
            /\ block_actions' = block_actions \ {TopLoop}
            /\ loop_life' = [loop_life EXCEPT ![TopLoop].popped = Len(opened)]
            /\ UNCHANGED <<status, error>>
    /\ UNCHANGED <<blocks, current_block_offset, scope, syntax_info, loops, analyses>>

\* Interpreter.block_constains_opname(o, 'POP_BLOCK'): the instructions of a
\* block already translated are known; for another block the answer is an
\* input, which the block's instructions must later agree with
block_constains_opname(memo, o) ==
    IF SeenPopBlock(o) THEN {TRUE}
    ELSE IF o \in DOMAIN bytecode /\ o # cur THEN {FALSE}
    ELSE Reading(memo, o, BOOLEAN)

\* an answer that the instructions do not settle yet is remembered
PopMemo(memo, o, v) ==
    IF SeenPopBlock(o) \/ (o \in DOMAIN bytecode /\ o # cur) THEN memo
    ELSE Put(memo, o, v)

\* br in self.cfa.blocks[loop.exit].incoming, which matters only for a
\* target br that holds a POP_BLOCK; the exit block is not its own predecessor
IsExitPred(memo, exit, br, has) ==
    IF has /\ br # exit THEN Reading(memo, <<exit, br>>, BOOLEAN) ELSE {FALSE}

ExitMemo(memo, exit, br, has, v) ==
    IF has /\ br # exit THEN Put(memo, <<exit, br>>, v) ELSE memo

\* the test of line 397 left out: any target that holds a POP_BLOCK will do
while_found_any(hasT, hasF, exitT, exitF) == hasT \/ hasF

\* lines 389-398 on the facts of the two targets: hasT, hasF = whether the
\* true and the false target hold a POP_BLOCK; exitT, exitF = whether they
\* are in cfa.blocks[loop.exit].incoming.  The for loop stops at the first
\* target that holds a POP_BLOCK, and only that one is tested against the exit
while_found(hasT, hasF, exitT, exitF) ==
    IF hasT THEN exitT ELSE IF hasF THEN exitF ELSE FALSE

_determine_while_condition(truebr, falsebr) ==
    IF syntax_blocks = <<>> \/ loops[TopLoop].condition # NoOffset
    THEN UNCHANGED <<loops, block_actions, loop_life, cfa_popblock, cfa_incoming>>
    ELSE \E hasT \in block_constains_opname(cfa_popblock, truebr) :
         LET m1 == PopMemo(cfa_popblock, truebr, hasT) IN
         \E hasF \in block_constains_opname(m1, falsebr) :
         LET m2 == PopMemo(m1, falsebr, hasF)
             exit == loops[TopLoop].exit
         IN
         \E exitT \in IsExitPred(cfa_incoming, exit, truebr, hasT) :
         LET c1 == ExitMemo(cfa_incoming, exit, truebr, hasT, exitT) IN
         \E exitF \in IsExitPred(c1, exit, falsebr, hasF) :
            /\ cfa_popblock' = m2
            /\ cfa_incoming' = ExitMemo(c1, exit, falsebr, hasF, exitF)
            /\ IF while_found(hasT, hasF, exitT, exitF)
               THEN /\ loops' = set_condition(loops, TopLoop)
                    /\ block_actions' = block_actions \cup {TopLoop}
                    /\ loop_life' = note_found(loop_life, TopLoop)
               ELSE UNCHANGED <<loops, block_actions, loop_life>>

\* the table with the iftrue of POP_JUMP_IF_FALSE and JUMP_IF_TRUE_OR_POP
\* exchanged
JumpIfTrue_exchanged ==
    [JUMP_IF_FALSE |-> FALSE, JUMP_IF_TRUE |-> TRUE,
     POP_JUMP_IF_FALSE |-> TRUE, POP_JUMP_IF_TRUE |-> TRUE,
     JUMP_IF_FALSE_OR_POP |-> FALSE, JUMP_IF_TRUE_OR_POP |-> FALSE]

\* the iftrue argument each op_*JUMP_IF* method passes
JumpIfTrue ==
    [JUMP_IF_FALSE |-> FALSE, JUMP_IF_TRUE |-> TRUE,
     POP_JUMP_IF_FALSE |-> FALSE, POP_JUMP_IF_TRUE |-> TRUE,
     JUMP_IF_FALSE_OR_POP |-> FALSE, JUMP_IF_TRUE_OR_POP |-> TRUE]

_op_JUMP_IF(opname, target, pred, iftrue) ==
    LET truebr == IF iftrue THEN target ELSE InstNext(TRUE)
        falsebr == IF iftrue THEN InstNext(TRUE) ELSE target
    IN  /\ IF ~Defined(scope, pred)
           THEN /\ Raise("UndefinedVariable", opname)
                /\ UNCHANGED <<blocks, loops, block_actions, loop_life,
                               cfa_popblock, cfa_incoming>>
           ELSE /\ Emit(Branch(get(scope, pred), truebr, falsebr))
                /\ _determine_while_condition(truebr, falsebr)
                /\ UNCHANGED <<status, error>>
        /\ UNCHANGED <<current_block_offset, scope, syntax_blocks, syntax_info,
                       opened, backbone, dfa_stack, dfa_incomings, tables>>

DispatchSETUP_LOOP(arg) ==
    /\ CanDispatch
    /\ Handler("SETUP_LOOP") = "SETUP_LOOP"
    /\ arg >= 0
    /\ InstNext(FALSE) + arg \in BlockOffsets
    /\ Fetch("SETUP_LOOP", arg, InstNext(FALSE) + arg, <<>>)
    /\ op_SETUP_LOOP(arg)

DispatchFOR_ITER(iterator, indval, pred) ==
    /\ CanDispatch
    /\ Handler("FOR_ITER") = "FOR_ITER"
    /\ InstNext(TRUE) \in BlockOffsets
    /\ Fetch("FOR_ITER", 0, NoOffset, <<iterator, indval, pred>>)
    /\ op_FOR_ITER(iterator, indval, pred)

DispatchPOP_BLOCK ==
    /\ CanDispatch
    /\ Handler("POP_BLOCK") = "POP_BLOCK"
    /\ cur \in DOMAIN cfa_popblock => cfa_popblock[cur]
    /\ Fetch("POP_BLOCK", 0, NoOffset, <<>>)
    /\ op_POP_BLOCK

DispatchJUMP_IF(opname, target, pred) ==
    /\ CanDispatch
    /\ Handler(opname) \in DOMAIN JumpIfTrue
    /\ InstNext(TRUE) \in BlockOffsets
    /\ Fetch(opname, target, target, <<pred>>)
    /\ _op_JUMP_IF(opname, target, pred, JumpIfTrue[Handler(opname)])

\* ----------------------------------------------------------- the programs
\* the block that follows the current one in the bytecode
NextLive == IF cur = NoOffset THEN 0 ELSE cur + Stride

\* no block opened so far has a merge variable
NoMergeYet == \A o \in DOMAIN dfa_incomings : dfa_incomings[o] = <<>>

\* the opcodes of binary and in-place arithmetic in the bytecode
BinaryOpnames ==
    {"BINARY_ADD", "BINARY_SUBTRACT", "BINARY_MULTIPLY", "BINARY_DIVIDE",
     "BINARY_TRUE_DIVIDE", "BINARY_FLOOR_DIVIDE", "BINARY_MODULO"}

InplaceOpnames ==
    {"INPLACE_ADD", "INPLACE_SUBTRACT", "INPLACE_MULTIPLY", "INPLACE_DIVIDE",
     "INPLACE_TRUE_DIVIDE", "INPLACE_FLOOR_DIVIDE", "INPLACE_MODULO"}

\* block construction and dispatch (4.2, 4.5)
NextBlock ==
    \/ \E offset \in BlockOffsets, inbb \in BOOLEAN : StartNewBlock(offset, inbb, <<>>)
    \/ Finish
    \/ DispatchSTORE_FAST(2, "x")
    \/ DispatchLOAD_CONST(1, "y")
    \/ \E target \in DOMAIN blocks : DispatchJUMP_ABSOLUTE(target)
    \/ DispatchJUMP_FORWARD(cur + Stride)
    \/ \E retval \in Names : DispatchRETURN_VALUE(retval)
    \/ DispatchJUMP_IF("JUMP_IF_TRUE", 0, "x")
    \/ Unsupported("NOP")

SpecBlock == Init /\ [][NextBlock]_vars

\* phi insertion (4.3)
\* one block of the function has merge variables; it may be in the backbone
NextPhi ==
    \/ StartNewBlock(NextLive, FALSE, <<>>)
    \/ \E inbb \in BOOLEAN, incs \in IncomingsChoices \ {<<>>} :
          NoMergeYet /\ StartNewBlock(NextLive, inbb, incs)
    \/ Finish
    \/ DispatchLOAD_CONST(1, "y")
    \/ DispatchJUMP_ABSOLUTE(0)

SpecPhi == Init /\ [][NextPhi]_vars

\* binary and in-place arithmetic (4.5)
NextArith ==
    \/ StartNewBlock(0, FALSE, <<>>)
    \/ Finish
    \/ \E opname \in BinaryOpnames : DispatchBINARY(opname, "x", "x", "y")
    \/ \E opname \in InplaceOpnames : DispatchINPLACE(opname, "x", "x", "y")
    \/ \E opname \in BinaryOpnames \cup InplaceOpnames : Unsupported(opname)

SpecArith == Init /\ [][NextArith]_vars

\* loop recovery (4.4)
NextLoop ==
    \/ StartNewBlock(NextLive, FALSE, <<>>)
    \/ Finish
    \/ \E exit \in BlockOffsets : DispatchSETUP_LOOP(exit - InstNext(FALSE))
    \/ \E iterator \in Names : DispatchFOR_ITER(iterator, "y", "x")
    \/ DispatchPOP_BLOCK
    \/ \E opname \in {"POP_JUMP_IF_FALSE", "POP_JUMP_IF_TRUE"},
          target \in {t \in BlockOffsets : t > cur} :
          DispatchJUMP_IF(opname, target, "x")
    \/ DispatchJUMP_ABSOLUTE(0)

SpecLoop == Init /\ [][NextLoop]_vars

\* the conditional jumps (4.5), with and without a Loop on the stack
NextJump ==
    \/ StartNewBlock(NextLive, FALSE, <<>>)
    \/ Finish
    \/ \E exit \in BlockOffsets : DispatchSETUP_LOOP(exit - InstNext(FALSE))
    \/ \E opname \in DOMAIN JumpIfTrue, target \in {t \in BlockOffsets : t > cur},
          pred \in {"x", "y"} :
          DispatchJUMP_IF(opname, target, pred)

SpecJump == Init /\ [][NextJump]_vars

\* x = 1; y = 2; z = x + y; return z: the instructions dfa hands to the
\* interpreter, in order (a LOAD_FAST only pushes the local's name on the
\* symbolic stack of dfa and is not handed over), and the argument of each
Scenario1 ==
    <<"LOAD_CONST", "STORE_FAST", "LOAD_CONST", "STORE_FAST", "BINARY_ADD",
      "STORE_FAST", "RETURN_VALUE">>

Scenario1Arg == <<1, 1, 2, 2, 0, 3, 0>>

\* _iter_inst yields the next instruction of the scenario, whose operand is
\* the result dfa named last; the results are temporaries of dfa's choice
DispatchScenario1 ==
    /\ status = "running"
    /\ cur = 0
    /\ Len(bytecode[cur]) < Len(Scenario1)
    /\ LET opname == Scenario1[Len(bytecode[cur]) + 1]
           arg == Scenario1Arg[Len(bytecode[cur]) + 1]
           top == inst.kws[Len(inst.kws)]
       IN  /\ Handler(opname) = opname
           /\ CASE opname = "LOAD_CONST" ->
                    \E res \in Temps :
                       /\ Fetch(opname, arg, NoOffset, <<res>>)
                       /\ op_LOAD_CONST(arg, res)
                [] opname = "STORE_FAST" ->
                    /\ Fetch(opname, arg, NoOffset, <<top>>)
                    /\ op_STORE_FAST(arg, top)
                [] opname = "BINARY_ADD" ->
                    \E res \in Temps :
                       /\ Fetch(opname, arg, NoOffset, <<"x", "y", res>>)
                       /\ op_BINARY(opname, "x", "y", res)
                [] opname = "RETURN_VALUE" ->
                    /\ Fetch(opname, arg, NoOffset, <<"z">>)
                    /\ op_RETURN_VALUE("z")

NextLinear ==
    \/ \E inbb \in BOOLEAN : StartNewBlock(0, inbb, <<>>)
    \/ Finish
    \/ DispatchScenario1

SpecLinear == Init /\ [][NextLinear]_vars

\* global lookup (4.5)
NextGlobal ==
    \/ StartNewBlock(NextLive, FALSE, <<>>)
    \/ Finish
    \/ \E arg \in DOMAIN code_names, res \in {"$0", "$1"} :
          DispatchLOAD_GLOBAL(arg, res)

SpecGlobal == Init /\ [][NextGlobal]_vars

\* opening blocks (4.2) of a function with loops and one merge variable
NextOpen ==
    \/ StartNewBlock(NextLive, FALSE, <<>>)
    \/ \E incs \in IncomingsChoices \ {<<>>} :
          NoMergeYet /\ StartNewBlock(NextLive, FALSE, incs)
    \/ Finish
    \/ \E exit \in BlockOffsets : DispatchSETUP_LOOP(exit - InstNext(FALSE))
    \/ DispatchFOR_ITER("x", "y", "x")
    \/ DispatchPOP_BLOCK
    \/ DispatchLOAD_CONST(1, "y")

SpecOpen == Init /\ [][NextOpen]_vars

\* ------------------------------------------------------------- properties
\* the opname of the last instruction of block o in the bytecode
LastOpname(o) == bytecode[o][Len(bytecode[o])]

\* the statement kind a terminating instruction lowers to
TerminatorKind ==
    [JUMP_ABSOLUTE |-> "Jump", JUMP_FORWARD |-> "Jump", RETURN_VALUE |-> "Return",
     FOR_ITER |-> "Branch", JUMP_IF_FALSE |-> "Branch", JUMP_IF_TRUE |-> "Branch",
     POP_JUMP_IF_FALSE |-> "Branch", POP_JUMP_IF_TRUE |-> "Branch",
     JUMP_IF_FALSE_OR_POP |-> "Branch", JUMP_IF_TRUE_OR_POP |-> "Branch"]

TerminatorCount(body) ==
    Cardinality({i \in 1 .. Len(body) : body[i].kind \in Terminators})

\* C1: every block except the last one opened ends in exactly one terminator,
\* which is its last statement; a block the source left without a terminator
\* has gained one Jump to the block opened right after it, and a block the
\* source terminated keeps its own terminator and gains no Jump
C1_BlocksTerminated ==
    \A i \in 1 .. (Len(opened) - 1) :
        LET o == opened[i]
            body == blocks[o]
        IN  /\ is_terminated(body)
            /\ TerminatorCount(body) = 1
            /\ LastOpname(o) \notin TerminatingOps =>
                  body[Len(body)] = Jump(opened[i + 1])
            /\ LastOpname(o) \in TerminatingOps =>
                  body[Len(body)].kind = TerminatorKind[LastOpname(o)]

\* interpret() has returned over three blocks, of which one fell through and
\* one ended in a source terminator
C1_Witness ==
    /\ status = "done"
    /\ \E i, j \in 1 .. (Len(opened) - 1) :
          /\ LastOpname(opened[i]) \notin TerminatingOps
          /\ LastOpname(opened[j]) \in TerminatingOps

\* the predecessors cfa has reported for block o
Preds(o) ==
    {ib \in BlockOffsets : <<o, ib>> \in DOMAIN cfa_incoming /\ cfa_incoming[<<o, ib>>]}

\* block o was opened with one merge variable and its predecessors were read
MergeBlock(o) ==
    /\ o \in DOMAIN dfa_incomings
    /\ Len(dfa_incomings[o]) = 1
    /\ \A ib \in BlockOffsets : <<o, ib>> \in DOMAIN cfa_incoming

\* C2: a block with a merge variable and more than one predecessor starts with
\* the Assign of a Phi that has exactly one entry per predecessor, holding
\* that predecessor's lingering value, also for a predecessor that comes
\* later in the traversal (stated for well-formed facts: every predecessor
\* leaves one value, and the blocks translated before have bound theirs)
C2_PhiEntryPerPredecessor ==
    \A o \in DOMAIN blocks :
        (/\ MergeBlock(o)
         /\ Cardinality(Preds(o)) > 1
         /\ \A ib \in Preds(o) : Len(dfa_stack[ib]) = 1
         /\ \A ib \in Preds(o) : ib < o => Defined(scope, dfa_stack[ib][1]))
        => /\ Len(blocks[o]) >= 1
           /\ blocks[o][1].kind = "Assign"
           /\ blocks[o][1].target.name = dfa_incomings[o][1]
           /\ blocks[o][1].value.kind = "Phi"
           /\ LET incoming == blocks[o][1].value.incoming
              IN  /\ Len(incoming) = Cardinality(Preds(o))
                  /\ \A ib \in Preds(o) :
                        \E i \in 1 .. Len(incoming) :
                           /\ incoming[i][1] = ib
                           /\ incoming[i][2].kind = "Var"
                           /\ incoming[i][2].name = dfa_stack[ib][1]

\* C3: opening a block with one merge variable and exactly one predecessor
\* builds no Phi: when the predecessor leaves one value and that value is
\* bound, the block starts with the Assign of the variable the scope resolved
\* for it to the merge variable; otherwise the translation fails with the
\* block empty; no statement of such a block ever holds a Phi
C3_SinglePredecessorAlias ==
    [][/\ \A o \in DOMAIN blocks' :
             (MergeBlock(o)' /\ Cardinality(Preds(o)') = 1) =>
                \A i \in 1 .. Len(blocks'[o]) :
                   blocks'[o][i].kind = "Assign" => blocks'[o][i].value.kind # "Phi"
       /\ opened' # opened =>
            LET o == current_block_offset'
                incomings == {ib \in BlockOffsets :
                                 /\ <<o, ib>> \in DOMAIN cfa_incoming'
                                 /\ cfa_incoming'[<<o, ib>>]}
            IN  (Len(dfa_incomings'[o]) = 1 /\ Cardinality(incomings) = 1) =>
                   LET ib == CHOOSE ib \in incomings : TRUE
                       lingering == dfa_stack'[ib]
                   IN  IF Len(lingering) = 1 /\ Defined(scope, lingering[1])
                       THEN /\ status' = "running"
                            /\ blocks'[o] = <<Assign(get(scope, lingering[1]),
                                                     get(scope', dfa_incomings'[o][1]))>>
                       ELSE /\ status' = "failed"
                            /\ error'.kind = IF Len(lingering) = 1
                                             THEN "UndefinedVariable"
                                             ELSE "AssertionError"
                            /\ blocks'[o] = <<>>]_vars

\* a block with one merge variable and one predecessor was opened and the
\* merge variable was bound to the predecessor's value
C3_Witness ==
    /\ status = "running"
    /\ \E o \in DOMAIN blocks :
          /\ MergeBlock(o)
          /\ Cardinality(Preds(o)) = 1
          /\ Len(blocks[o]) >= 1
          /\ blocks[o][1].value.kind = "Var"

\* C4: dispatching an opcode that has no handler ends the translation with a
\* NotImplementedError that carries that instruction; the handler changes no
\* block, and once the translation has failed no further instruction is
\* lowered, no block is opened and interpret() never returns a result
C4_UnsupportedAborts ==
    [][/\ status = "failed" => UNCHANGED vars
       /\ (inst' # inst /\ inst'.opname # "none" /\ Handler(inst'.opname) = NoHandler) =>
             /\ status' = "failed"
             /\ error' = [kind |-> "NotImplementedError",
                          inst |-> [opname |-> inst'.opname, offset |-> inst'.offset]]
             /\ blocks' = blocks
             /\ opened' = opened
             /\ scope' = scope]_vars

\* an opcode without handler was dispatched in the second block, after the
\* first block had received statements
C4_Witness ==
    /\ status = "failed"
    /\ error.kind = "NotImplementedError"
    /\ error.inst.opname = "NOP"
    /\ Len(opened) = 2
    /\ Len(blocks[opened[1]]) > 0

\* the BINARY_ opcode that an INPLACE_ opcode is the in-place form of
InplaceCounterpart ==
    [INPLACE_ADD |-> "BINARY_ADD", INPLACE_SUBTRACT |-> "BINARY_SUBTRACT",
     INPLACE_MULTIPLY |-> "BINARY_MULTIPLY", INPLACE_DIVIDE |-> "BINARY_DIVIDE",
     INPLACE_TRUE_DIVIDE |-> "BINARY_TRUE_DIVIDE",
     INPLACE_FLOOR_DIVIDE |-> "BINARY_FLOOR_DIVIDE",
     INPLACE_MODULO |-> "BINARY_MODULO"]

\* C5: for add, subtract, multiply, the division forms and modulo, the
\* in-place opcode appends the Assign of BinOp(symbol, lhs, rhs) that its
\* BINARY_ counterpart appends, and neither opcode fails for want of a handler
C5_InplaceLowersLikeBinary ==
    inst.opname \in BinaryOpnames \cup InplaceOpnames =>
        LET binary == IF inst.opname \in InplaceOpnames
                      THEN InplaceCounterpart[inst.opname] ELSE inst.opname
            body == blocks[cur]
        IN  /\ ~(status = "failed" /\ error.kind = "NotImplementedError")
            /\ status = "running" =>
                  body[Len(body)] =
                     Assign(BinOp(BinarySymbol[binary], get(scope, inst.kws[1]),
                                  get(scope, inst.kws[2])),
                            get(scope, inst.kws[3]))

Range(seq) == {seq[i] : i \in 1 .. Len(seq)}

\* C6: a FOR_ITER that succeeds sets the condition of the Loop on top of the
\* stack to the offset of its block and makes the block exactly: Assign of
\* IterNext, Assign of IterValid, Branch on that predicate to the next
\* instruction if true and to the Loop's exit (next offset of the SETUP_LOOP
\* plus its argument) if false; the Loop is valid and is in the final list
C6_ForIterCondition ==
    /\ (inst.opname = "FOR_ITER" /\ status # "failed") =>
          LET l == TopLoop
              body == blocks[cur]
              setup == loop_life[l].setup
          IN  /\ loops[l].condition = cur
              /\ Len(body) = 3
              /\ body[1].kind = "Assign"
              /\ body[1].value.kind = "IterNext"
              /\ body[1].value.value.name = inst.kws[1]
              /\ body[1].target.name = inst.kws[2]
              /\ body[2].kind = "Assign"
              /\ body[2].value = IterValid(body[1].value.value)
              /\ body[2].target.name = inst.kws[3]
              /\ body[3] = Branch(body[2].target, inst.next, setup.next + setup.arg)
              /\ valid(loops[l])
              /\ status = "done" => l \in Range(syntax_info)
    /\ status = "done" =>
          \A l \in DOMAIN loops :
             (/\ loops[l].condition # NoOffset
              /\ bytecode[loops[l].condition][1] = "FOR_ITER")
             => l \in Range(syntax_info)

\* interpret() has returned after a FOR_ITER under an inner Loop, whose outer
\* Loop has no condition
C6_Witness ==
    /\ status = "done"
    /\ inst.opname = "FOR_ITER"
    /\ Len(syntax_blocks) = 2
    /\ syntax_info = <<TopLoop>>

\* Loop m was set up while Loop l was on the stack
Encloses(l, m) ==
    /\ l < m
    /\ loop_life[l].popped = -1 \/ loop_life[l].popped >= loop_life[m].born

\* C7: the body of a Loop whose condition was discovered is exactly the
\* offsets of the blocks opened after the discovery and before the pop, each
\* once; the header and the condition block are not in it; the blocks of an
\* inner Loop are in the body of every enclosing valid Loop; none is added
\* after the pop
C7_LoopBody ==
    \A l \in DOMAIN loops :
        loop_life[l].found # -1 =>
           LET last == IF loop_life[l].popped = -1 THEN Len(opened)
                       ELSE loop_life[l].popped
           IN  /\ loops[l].body = SubSeq(opened, loop_life[l].found + 1, last)
               /\ loops[l].entry \notin Range(loops[l].body)
               /\ loops[l].condition \notin Range(loops[l].body)
               /\ \A m \in DOMAIN loops :
                     (Encloses(l, m) /\ loop_life[m].found # -1) =>
                        Range(loops[m].body) \subseteq Range(loops[l].body)

\* the two targets of the conditional jump just dispatched
JumpTargets(i) ==
    IF i.opname \in DOMAIN JumpIfTrue THEN {i.target, i.next} ELSE {}

\* C8: a conditional jump changes a Loop or installs a listener only if the
\* Loop on top of the stack has no condition yet and one of the two targets is
\* a block that holds a POP_BLOCK and is a predecessor of the Loop's exit;
\* the change is then: that Loop's condition becomes the current block and
\* its listener is installed
C8_WhileConditionOnlyIf ==
    [][(inst' # inst /\ inst'.opname \in DOMAIN JumpIfTrue
          /\ (loops' # loops \/ block_actions' # block_actions)) =>
            /\ syntax_blocks # <<>>
            /\ loops[TopLoop].condition = NoOffset
            /\ \E t \in JumpTargets(inst') :
                  /\ t \in DOMAIN cfa_popblock' /\ cfa_popblock'[t]
                  /\ <<loops[TopLoop].exit, t>> \in DOMAIN cfa_incoming'
                  /\ cfa_incoming'[<<loops[TopLoop].exit, t>>]
            /\ loops' = [loops EXCEPT ![TopLoop].condition = cur]
            /\ block_actions' = block_actions \cup {TopLoop}]_vars

\* a conditional jump under an inner Loop has made its block the condition
\* of that Loop, the outer Loop still without condition
C8_Witness ==
    /\ status = "running"
    /\ inst.opname \in DOMAIN JumpIfTrue
    /\ Len(syntax_blocks) = 2
    /\ loops[TopLoop].condition = cur
    /\ loops[syntax_blocks[1]].condition = NoOffset
    /\ block_actions = {TopLoop}

\* C9: a conditional jump lowered while the Loop on top of the stack has no
\* condition makes the current block that Loop's condition and installs its
\* listener if either target is a block that holds a POP_BLOCK and is a
\* predecessor of the Loop's exit, whatever the other target holds
C9_EitherTargetSuffices ==
    [][(/\ inst' # inst
        /\ inst'.opname \in DOMAIN JumpIfTrue
        /\ status' = "running"
        /\ syntax_blocks # <<>>
        /\ loops[TopLoop].condition = NoOffset
        /\ \E t \in JumpTargets(inst') :
              /\ t \in DOMAIN cfa_popblock' /\ cfa_popblock'[t]
              /\ <<loops[TopLoop].exit, t>> \in DOMAIN cfa_incoming'
              /\ cfa_incoming'[<<loops[TopLoop].exit, t>>])
       => /\ loops'[TopLoop].condition = cur
          /\ TopLoop \in block_actions']_vars

IfTrueOpnames == {"JUMP_IF_TRUE", "POP_JUMP_IF_TRUE", "JUMP_IF_TRUE_OR_POP"}

\* the opcodes that jump when the predicate is false
IfFalseOpnames == {"JUMP_IF_FALSE", "POP_JUMP_IF_FALSE", "JUMP_IF_FALSE_OR_POP"}

\* C11: each of the six conditional jumps appends exactly one Branch on its
\* predicate: an if-true opcode with true target = jump target and false
\* target = next offset, an if-false opcode the other way round; the while
\* check acts only in a step that appends the Branch, and a jump whose
\* predicate is unbound appends nothing and changes no Loop
C11_JumpIfBranch ==
    [][(inst' # inst /\ inst'.opname \in IfTrueOpnames \cup IfFalseOpnames) =>
          LET pred == inst'.kws[1]
              truebr == IF inst'.opname \in IfTrueOpnames
                        THEN inst'.target ELSE inst'.next
              falsebr == IF inst'.opname \in IfTrueOpnames
                         THEN inst'.next ELSE inst'.target
          IN  IF Defined(scope, pred)
              THEN /\ status' = "running"
                   /\ blocks' = [blocks EXCEPT ![cur] =
                                    Append(@, Branch(get(scope, pred), truebr, falsebr))]
              ELSE /\ status' = "failed"
                   /\ error'.kind = "UndefinedVariable"
                   /\ blocks' = blocks
                   /\ loops' = loops
                   /\ block_actions' = block_actions]_vars

\* an if-false jump and an if-true jump were lowered, the second one under a
\* Loop whose condition it became
C11_Witness ==
    /\ status = "running"
    /\ inst.opname \in IfTrueOpnames
    /\ inst.target # inst.next
    /\ Len(opened) = 2
    /\ LastOpname(opened[1]) \in IfFalseOpnames
    /\ syntax_blocks # <<>>
    /\ loops[TopLoop].condition = cur

\* interpret() has returned after the whole of scenario 1
Scenario1Done == status = "done" /\ DOMAIN bytecode = {0} /\ bytecode[0] = Scenario1

\* C12 as claimed: scenario 1 lowers to one block whose statements are exactly
\* Assign(x, Const 1), Assign(y, Const 2), Assign(z, BinOp('+', x, y)),
\* Return(z)
C12_Scenario1FourStatements ==
    Scenario1Done =>
        /\ DOMAIN blocks = {0}
        /\ Len(blocks[0]) = 4
        /\ blocks[0][1].kind = "Assign"
        /\ blocks[0][1].value = Const(1)
        /\ blocks[0][1].target.name = "x"
        /\ blocks[0][2].kind = "Assign"
        /\ blocks[0][2].value = Const(2)
        /\ blocks[0][2].target.name = "y"
        /\ blocks[0][3].kind = "Assign"
        /\ blocks[0][3].value = BinOp("+", blocks[0][1].target, blocks[0][2].target)
        /\ blocks[0][3].target.name = "z"
        /\ blocks[0][4] = Return(blocks[0][3].target)

\* C12 (amended): scenario 1 lowers to one block whose statements are exactly
\* Assign(t1, Const 1), Assign(x, t1), Assign(t2, Const 2), Assign(y, t2),
\* Assign(t3, BinOp('+', x, y)), Assign(z, t3), Return(z), where t1, t2, t3
\* are the temporaries dfa named the results with
C12_Scenario1WithTemporaries ==
    Scenario1Done =>
        LET body == blocks[0] IN
        /\ DOMAIN blocks = {0}
        /\ Len(body) = 7
        /\ \A i \in 1 .. 6 : body[i].kind = "Assign"
        /\ body[1].value = Const(1)
        /\ body[1].target.name \in Temps
        /\ body[2].value = body[1].target
        /\ body[2].target.name = "x"
        /\ body[3].value = Const(2)
        /\ body[3].target.name \in Temps
        /\ body[4].value = body[3].target
        /\ body[4].target.name = "y"
        /\ body[5].value = BinOp("+", body[2].target, body[4].target)
        /\ body[5].target.name \in Temps
        /\ body[6].value = body[5].target
        /\ body[6].target.name = "z"
        /\ body[7] = Return(body[6].target)

\* interpret() has returned after scenario 1 with three different temporaries
C12_Witness ==
    /\ Scenario1Done
    /\ Len(blocks[0]) = 7
    /\ Cardinality({blocks[0][i].target.name : i \in {1, 3, 5}}) = 3

\* the name is in the table, as far as the table was read
Holds(table, name) == name \in DOMAIN table /\ table[name] # NotThere

\* C13: a LOAD_GLOBAL never fails: it binds Global(name, value) where value
\* is the function-global table's when the name is there (also when the
\* builtin namespace has it too), else the builtin namespace's when the name
\* is there, else the undefined sentinel
C13_GlobalLookup ==
    inst.opname = "LOAD_GLOBAL" =>
        LET name == code_names[inst.arg]
            body == blocks[cur]
            value == CASE Holds(func_globals, name) -> func_globals[name]
                       [] ~Holds(func_globals, name) /\ Holds(builtins, name) ->
                             builtins[name]
                       [] OTHER -> UNDEFINED
        IN  /\ status # "failed"
            /\ error = NoError
            /\ name \in DOMAIN func_globals
            /\ name \in DOMAIN builtins
            /\ Len(body) >= 1
            /\ body[Len(body)] = Assign(Global(name, value), get(scope, inst.kws[1]))

\* lookups were lowered of a name both tables hold, and of a name
\* neither holds
C13_Witness ==
    /\ inst.opname = "LOAD_GLOBAL"
    /\ \E name \in DOMAIN func_globals :
          /\ Holds(func_globals, name)
          /\ Holds(builtins, name)
          /\ \E i \in 1 .. Len(blocks[0]) :
                blocks[0][i].value = Global(name, func_globals[name])
    /\ \E name \in DOMAIN func_globals :
          /\ ~Holds(func_globals, name)
          /\ ~Holds(builtins, name)
          /\ \E i \in 1 .. Len(blocks[0]) :
                blocks[0][i].value = Global(name, UNDEFINED)

\* a step that opens a block
Opens == current_block_offset' # current_block_offset

\* C14: opening a block closes the block left open with a Jump to the new
\* one, then inserts the merge assignment as the new block's first and only
\* statement, then invokes every registered listener exactly once with the
\* new offset; no instruction of the new block has been lowered by then, so
\* the listeners are the ones registered before the block; a failed phi
\* insertion invokes no listener
C14_OpenOrder ==
    [][Opens =>
        LET old == current_block_offset
            new == current_block_offset'
            incs == dfa_incomings'[new]
        IN  /\ old # NoOffset =>
                  blocks'[old] = IF is_terminated(blocks[old]) THEN blocks[old]
                                 ELSE Append(blocks[old], Jump(new))
            /\ \A o \in DOMAIN blocks \ {old} : blocks'[o] = blocks[o]
            /\ DOMAIN blocks' = DOMAIN blocks \cup {new}
            /\ bytecode'[new] = <<>>
            /\ inst' = NoInst
            /\ block_actions' = block_actions
            /\ syntax_blocks' = syntax_blocks
            /\ status' = "failed" => loops' = loops
            /\ status' = "running" =>
                  /\ IF incs = <<>> THEN blocks'[new] = <<>>
                     ELSE /\ Len(blocks'[new]) = 1
                          /\ blocks'[new][1].target = get(scope', incs[1])
                  /\ DOMAIN loops' = DOMAIN loops
                  /\ \A l \in DOMAIN loops :
                        loops'[l] = IF l \in block_actions
                                    THEN [loops[l] EXCEPT !.body = Append(@, new)]
                                    ELSE loops[l]
    ]_vars

\* a block with a merge variable was opened while one Loop had a listener and
\* another had none, after a block that was left open
C14_Witness ==
    /\ status = "running"
    /\ cur # NoOffset
    /\ bytecode[cur] = <<>>
    /\ dfa_incomings[cur] # <<>>
    /\ Len(blocks[cur]) = 1
    /\ \E l \in block_actions : loops[l].body # <<>> /\
          loops[l].body[Len(loops[l].body)] = cur
    /\ \E l \in DOMAIN loops : l \notin block_actions
    /\ \E o \in DOMAIN blocks :
          /\ o # cur
          /\ bytecode[o] # <<>>
          /\ bytecode[o][Len(bytecode[o])] \notin TerminatingOps
          /\ blocks[o] # <<>>
          /\ blocks[o][Len(blocks[o])] = Jump(cur)

\* a step in which STORE_FAST or LOAD_CONST ran to its store
Stores ==
    /\ current_block_offset' = current_block_offset
    /\ bytecode' # bytecode
    /\ inst'.opname \in {"STORE_FAST", "LOAD_CONST"}
    /\ status' = "running"

\* the name the instruction of the step stores to
StoredName ==
    IF inst'.opname = "STORE_FAST" THEN code_locals[inst'.arg] ELSE inst'.kws[1]

\* C15: a store appends exactly one Assign to the current block, whose
\* target is the name's version after the store; in a backbone block that
\* version is a fresh one, above the prior one; elsewhere it is the version
\* the name already has when it is bound, and the first one when it is not;
\* no other name changes
C15_StoreVersion ==
    [][Stores =>
        LET name == StoredName
            body == blocks[cur]
            after == blocks'[cur]
        IN  /\ Len(after) = Len(body) + 1
            /\ SubSeq(after, 1, Len(body)) = body
            /\ after[Len(after)].kind = "Assign"
            /\ after[Len(after)].target = Var(name, scope'[name])
            /\ \A o \in DOMAIN blocks \ {cur} : blocks'[o] = blocks[o]
            /\ \A n \in DOMAIN scope \ {name} : scope'[n] = scope[n]
            /\ IF cur \in backbone
               THEN scope'[name] > scope[name]
               ELSE IF Defined(scope, name)
               THEN scope'[name] = scope[name]
               ELSE scope'[name] = 1
    ]_vars

\* a backbone block stored twice to one name, with different targets, and a
\* block outside the backbone stored to it once more, with the last target
C15_Witness ==
    \E o \in backbone, p \in DOMAIN blocks \ backbone :
        /\ Len(blocks[o]) >= 2
        /\ Len(blocks[p]) >= 1
        /\ blocks[o][1].kind = "Assign"
        /\ blocks[o][2].kind = "Assign"
        /\ blocks[p][1].kind = "Assign"
        /\ blocks[o][1].target.name = blocks[o][2].target.name
        /\ blocks[o][1].target # blocks[o][2].target
        /\ blocks[p][1].target = blocks[o][2].target

\* block o was opened with facts no merge can be built from
MalformedMerge(o) ==
    /\ o \in DOMAIN dfa_incomings
    /\ \/ Len(dfa_incomings[o]) > 1
       \/ /\ MergeBlock(o)
          /\ \E ib \in Preds(o) : Len(dfa_stack[ib]) # 1

\* C16: a block opened with more than one merge variable, or with a merge
\* variable and a predecessor whose lingering stack does not hold exactly one
\* value, fails the translation with the assertion of _insert_phi, and no
\* instruction of the block is lowered (stated for well-formed facts: the
\* blocks translated before have bound the one value they leave)
C16_MalformedMergeFails ==
    \A o \in DOMAIN blocks :
        (/\ MalformedMerge(o)
         /\ \A ib \in Preds(o) :
               (ib < o /\ Len(dfa_stack[ib]) = 1) => Defined(scope, dfa_stack[ib][1]))
        => /\ status = "failed"
           /\ error.kind = "AssertionError"
           /\ error.inst.offset = o
           /\ current_block_offset = o
           /\ bytecode[o] = <<>>

\* a step in which the handler of opname ran to its end
Handled(opname) ==
    /\ current_block_offset' = current_block_offset
    /\ bytecode' # bytecode
    /\ inst'.opname = opname
    /\ status' = "running"

\* the Loop has been popped off the stack
Popped(l) == loop_life[l].popped # -1

ListenersOnStack ==
    \A l \in block_actions :
        /\ l \in Range(syntax_blocks)
        /\ ~Popped(l)
        /\ valid(loops[l])

\* C18: at every point of the translation a Loop that has a listener is on
\* the stack of Loops and has its condition; and no step adds a block to
\* the body of a Loop that has been popped. (block_actions is keyed by the
\* Loop, so a Loop has one listener or none.)
C18_ListenersOfOpenLoops ==
    /\ []ListenersOnStack
    /\ [][\A l \in DOMAIN loops : Popped(l) => loops'[l].body = loops[l].body]_vars

\* a Loop that had a listener was popped and a block was opened after that,
\* and did not enter its body
C18_Witness ==
    \E l \in DOMAIN loops :
        /\ valid(loops[l])
        /\ Popped(l)
        /\ loop_life[l].popped < Len(opened)
        /\ cur \notin Range(loops[l].body)

\* C19: once the condition of a Loop is set, by FOR_ITER or by the test of a
\* conditional jump, no later step changes it
C19_ConditionSetOnce ==
    [][\A l \in DOMAIN loops :
          valid(loops[l]) => loops'[l].condition = loops[l].condition]_vars

=============================================================================
